---- MODULE Spec2Model ----
(***************************************************************************)
(* Model of the i18n Manager of sk-pkg/i18n: the language catalog, the    *)
(* default language, language selection for a request, message            *)
(* translation with printf-style substitution, debug gating and the       *)
(* response envelope.                                                      *)
(*                                                                         *)
(* Go strings that the code takes apart or builds (language ids, message   *)
(* codes, templates, parameters, the User-Agent) are sequences of          *)
(* one-character strings.  Strings the code only compares or copies (the   *)
(* run environment, the debug header, error texts, trace ids, payload      *)
(* values) are TLA+ strings.                                               *)
(***************************************************************************)
EXTENDS Integers, Sequences, FiniteSets, TLC

VARIABLES
    LangList,     \* Manager.LangList: language -> (code -> template)
    defaultLang,  \* Manager.Option.defaultLang
    debugMode,    \* Manager.Option.debugMode
    RunEnv,       \* Manager.RunEnv
    out           \* the caller: idle, or the call it made and what came back

vars == <<LangList, defaultLang, debugMode, RunEnv, out>>

\* ------------------------------------------------------------------ bounds
MaxParams == 2     \* longest parameter list passed to Trans / Data.Params
MaxTmplLen == 5    \* longest enumerated template
MaxUAPieces == 5   \* most pieces a generated User-Agent is built from

\* --------------------------------------------------------- string literals
EmptyStr == <<>>
EnUS == <<"e", "n", "-", "U", "S">>
ZhCN == <<"z", "h", "-", "C", "N">>
FrFR == <<"f", "r", "-", "F", "R">>
XX == <<"x", "x">>
LangKey == <<"l", "a", "n", "g">>

\* const defaultLang = "en-US"
DefaultLangConst == EnUS

SeqsUpTo(S, n) == UNION {[1..k -> S] : k \in 0..n}

\* ----------------------------------------------------------- strings.Split
\* strings.Split(s, sep) for a one-character separator: the pieces between
\* the separators, empty pieces kept; Split("") is one empty piece.
RECURSIVE SplitFrom(_, _, _, _)
SplitFrom(s, sep, i, cur) ==
    IF i > Len(s) THEN <<cur>>
    ELSE IF s[i] = sep THEN <<cur>> \o SplitFrom(s, sep, i + 1, <<>>)
    ELSE SplitFrom(s, sep, i + 1, Append(cur, s[i]))

Split(s, sep) == SplitFrom(s, sep, 1, <<>>)

\* ------------------------------------------------------------ strconv.Itoa
DigitChars == <<"0", "1", "2", "3", "4", "5", "6", "7", "8", "9">>

RECURSIVE UItoa(_)
UItoa(n) ==
    IF n < 10 THEN <<DigitChars[n + 1]>>
    ELSE UItoa(n \div 10) \o <<DigitChars[(n % 10) + 1]>>

Itoa(n) == IF n < 0 THEN <<"-">> \o UItoa(-n) ELSE UItoa(n)

\* ------------------------------------------------------------- fmt.Sprintf
\* fmt.Sprintf(format, a...) with string operands, for formats without
\* flag, width, precision or argument-index characters and without the
\* verbs x, X and q (hex and quoted output).  %% is a percent
\* sign and takes no operand; %s and %v print the next operand; %T prints
\* the type of the next operand, which is string; any other verb is a
\* bad verb for a string; a verb with no operand left prints
\* %!verb(MISSING); a trailing % prints %!(NOVERB); operands left over at
\* the end are reported as %!(EXTRA string=..., string=...).
PercentBang == <<"%", "!">>
MissingString == <<"(", "M", "I", "S", "S", "I", "N", "G", ")">>
NoVerbString == <<"%", "!", "(", "N", "O", "V", "E", "R", "B", ")">>
ExtraString == <<"%", "!", "(", "E", "X", "T", "R", "A", " ">>
StringEq == <<"s", "t", "r", "i", "n", "g", "=">>
TypeString == <<"s", "t", "r", "i", "n", "g">>
CommaSpace == <<",", " ">>

BadVerb(verb, arg) ==
    PercentBang \o <<verb, "(">> \o StringEq \o arg \o <<")">>

RECURSIVE ExtraFrom(_, _)
ExtraFrom(a, k) ==
    IF k > Len(a) THEN <<")">>
    ELSE StringEq \o a[k]
         \o (IF k < Len(a) THEN CommaSpace ELSE <<>>)
         \o ExtraFrom(a, k + 1)

\* argNum counts the operands already used.
RECURSIVE doPrintf(_, _, _, _)
doPrintf(format, i, a, argNum) ==
    IF i > Len(format)
    THEN IF argNum < Len(a) THEN ExtraString \o ExtraFrom(a, argNum + 1)
         ELSE <<>>
    ELSE IF format[i] # "%"
    THEN <<format[i]>> \o doPrintf(format, i + 1, a, argNum)
    ELSE IF i + 1 > Len(format)
    THEN NoVerbString \o doPrintf(format, i + 1, a, argNum)
    ELSE LET verb == format[i + 1] IN
         IF verb = "%"
         THEN <<"%">> \o doPrintf(format, i + 2, a, argNum)
         ELSE IF argNum >= Len(a)
         THEN PercentBang \o <<verb>> \o MissingString
              \o doPrintf(format, i + 2, a, argNum)
         ELSE IF verb = "T"
         THEN TypeString \o doPrintf(format, i + 2, a, argNum + 1)
         ELSE IF verb \in {"s", "v"}
         THEN a[argNum + 1] \o doPrintf(format, i + 2, a, argNum + 1)
         ELSE BadVerb(verb, a[argNum + 1])
              \o doPrintf(format, i + 2, a, argNum + 1)

\* the parameter slice passed as one operand: %s prints it as [p1 p2 ...]
RECURSIVE JoinSpace(_, _)
JoinSpace(a, k) ==
    IF k > Len(a) THEN <<>>
    ELSE a[k] \o (IF k < Len(a) THEN <<" ">> ELSE <<>>) \o JoinSpace(a, k + 1)
SprintfUnspread(format, a) ==
    doPrintf(format, 1, <<(<<"[">> \o JoinSpace(a, 1) \o <<"]">>)>>, 0)
Sprintf(format, a) == doPrintf(format, 1, a, 0)

\* ---------------------------------------------------------------- Manager
\* The Manager as a value: its four fields.
Manager ==
    [LangList |-> LangList, defaultLang |-> defaultLang,
     debugMode |-> debugMode, RunEnv |-> RunEnv]

\* A nil map[string]string: every lookup misses.
NilMap == <<>>

\* m.LangList[lang] of a Go map: the stored mapping, or nil when absent.
LangListGet(m, lang) ==
    IF lang \in DOMAIN m.LangList THEN m.LangList[lang] ELSE NilMap

\* Trans, first half: the mapping the code is looked up in.
TransNoFallback(m, lang) == LangListGet(m, lang)
TransConstFallback(m, lang) ==
    IF lang \in DOMAIN m.LangList THEN m.LangList[lang]
    ELSE LangListGet(m, DefaultLangConst)
TransLangMap(m, lang) ==
    IF lang \in DOMAIN m.LangList THEN m.LangList[lang]
    ELSE LangListGet(m, m.defaultLang)

\* Trans, second half: the template of code in mapping l, formatted when
\* parameters were passed; the code itself when l has no such code.
TransMsgDefaultFallback(m, l, code, params) ==
    LET d == LangListGet(m, m.defaultLang) IN
    IF code \in DOMAIN l
    THEN IF Len(params) > 0 THEN Sprintf(l[code], params) ELSE l[code]
    ELSE IF code \in DOMAIN d
    THEN IF Len(params) > 0 THEN Sprintf(d[code], params) ELSE d[code]
    ELSE code
TransMsgFirstParam(m, l, code, params) ==
    IF code \in DOMAIN l
    THEN IF Len(params) > 0 THEN Sprintf(l[code], <<params[1]>>) ELSE l[code]
    ELSE code
TransMsgEmptyOnMiss(m, l, code, params) ==
    IF code \in DOMAIN l
    THEN IF Len(params) > 0 THEN Sprintf(l[code], params) ELSE l[code]
    ELSE EmptyStr
TransMsgAlwaysFormat(m, l, code, params) ==
    IF code \in DOMAIN l THEN Sprintf(l[code], params) ELSE code
TransMsg(m, l, code, params) ==
    IF code \in DOMAIN l
    THEN IF Len(params) > 0 THEN Sprintf(l[code], params) ELSE l[code]
    ELSE code

Trans(m, lang, code, params) ==
    TransMsg(m, TransLangMap(m, lang), code, params)

\* lang: the loop over the `;`-separated parts of the User-Agent.
RECURSIVE langFromUA(_, _, _)
langFromUA(parts, i, dflt) ==
    IF i > Len(parts) THEN dflt
    ELSE LET paramList == Split(parts[i], "=") IN
         IF Len(paramList) = 2 /\ paramList[1] = LangKey
         THEN paramList[2]
         ELSE langFromUA(parts, i + 1, dflt)

\* lang(c): the language of the request.  c.lang is the `lang` header
\* ("" when absent) and c.ua the User-Agent header.
RECURSIVE langFromUAFirstEq(_, _, _)
langFromUAFirstEq(parts, i, dflt) ==
    IF i > Len(parts) THEN dflt
    ELSE LET eqs == {j \in 1..Len(parts[i]) : parts[i][j] = "="} IN
         IF eqs # {} /\ SubSeq(parts[i], 1, (CHOOSE j \in eqs : \A k \in eqs : j <= k) - 1) = LangKey
         THEN SubSeq(parts[i], (CHOOSE j \in eqs : \A k \in eqs : j <= k) + 1, Len(parts[i]))
         ELSE langFromUAFirstEq(parts, i + 1, dflt)
langSplitFirstEq(m, c) ==
    IF c.lang # EmptyStr THEN c.lang
    ELSE langFromUAFirstEq(Split(c.ua, ";"), 1, m.defaultLang)
langUAFirst(m, c) ==
    LET fromUA == langFromUA(Split(c.ua, ";"), 1, EmptyStr) IN
    IF fromUA # EmptyStr THEN fromUA
    ELSE IF c.lang # EmptyStr THEN c.lang
    ELSE m.defaultLang
lang(m, c) ==
    IF c.lang # EmptyStr THEN c.lang
    ELSE langFromUA(Split(c.ua, ";"), 1, m.defaultLang)

\* isDebugMode(c): c.debug is the `debug` header ("" when absent).
isDebugModeOptionFirst(m, c) ==
    IF m.debugMode THEN TRUE
    ELSE IF m.RunEnv = "prod" THEN FALSE
    ELSE c.debug # ""
isDebugMode(m, c) ==
    IF m.RunEnv = "prod" THEN FALSE
    ELSE IF m.debugMode THEN TRUE
    ELSE c.debug # ""

\* result, the type switch on data: a payload is a plain value, a Data
\* struct or a pointer to a Data struct (which is not the Data case).
resultDataWhole(data) == data
resultData(data) == IF data.kind = "Data" THEN data.Data ELSE data

resultParamsNone(data) == <<>>
resultParams(data) == IF data.kind = "Data" THEN data.Params ELSE <<>>

\* result, the error description: fmt.Sprintf("%v", err) is err.Error().
resultDescAlways(m, c, err) == IF ~err.isNil THEN err.msg ELSE ""
resultDesc(m, c, err) ==
    IF isDebugMode(m, c) /\ ~err.isNil THEN err.msg ELSE ""

\* result(c, code, data, err).  c.trace_id is the value stored in the
\* request context under "trace_id": traceID.(string) panics when a value
\* is there and is not a string, and then no envelope is returned.
resultDropDataOnErr(m, c, code, data, err) ==
    LET Msg == Trans(m, lang(m, c), Itoa(code), resultParams(data)) IN
    IF c.trace_id.exists /\ ~c.trace_id.isString
    THEN [panic |-> TRUE]
    ELSE [panic |-> FALSE,
          Code |-> code,
          Msg |-> Msg,
          Trace |-> [ID |-> IF c.trace_id.exists THEN c.trace_id.str ELSE "",
                     Desc |-> resultDesc(m, c, err)],
          Data |-> IF err.isNil THEN resultData(data) ELSE [kind |-> "nil"]]
resultTraceDebugOnly(m, c, code, data, err) ==
    LET Msg == Trans(m, lang(m, c), Itoa(code), resultParams(data)) IN
    IF c.trace_id.exists /\ ~c.trace_id.isString
    THEN [panic |-> TRUE]
    ELSE [panic |-> FALSE,
          Code |-> code,
          Msg |-> Msg,
          Trace |-> [ID |-> IF c.trace_id.exists /\ isDebugMode(m, c)
                            THEN c.trace_id.str ELSE "",
                     Desc |-> resultDesc(m, c, err)],
          Data |-> resultData(data)]
result(m, c, code, data, err) ==
    LET Msg == Trans(m, lang(m, c), Itoa(code), resultParams(data)) IN
    IF c.trace_id.exists /\ ~c.trace_id.isString
    THEN [panic |-> TRUE]
    ELSE [panic |-> FALSE,
          Code |-> code,
          Msg |-> Msg,
          Trace |-> [ID |-> IF c.trace_id.exists THEN c.trace_id.str ELSE "",
                     Desc |-> resultDesc(m, c, err)],
          Data |-> resultData(data)]

\* SetLang(lang): the new value of Option.defaultLang.
SetLangAlways(m, l) == l
SetLang(m, l) == IF l # EmptyStr THEN l ELSE m.defaultLang

\* Count(): the number of languages in the language list.
Count(m) == Cardinality(DOMAIN m.LangList)

\* Lang(): the non-empty keys of the language list, appended in the order
\* the map iteration yields them, which Go leaves unspecified: every
\* ordering of the keys is a possible return value.
Orderings(S) ==
    {s \in [1..Cardinality(S) -> S] :
        \A i, j \in 1..Cardinality(S) : i # j => s[i] # s[j]}
LangOrders(m) == Orderings(DOMAIN m.LangList \ {EmptyStr})

\* LangExist(lang): whether the language list has the key.
LangExist(m, l) == l \in DOMAIN m.LangList

\* http.StatusOK
StatusOK == 200

\* The response methods: each hands StatusOK and the envelope to the
\* renderer of the same name on the context; JSON first stores the code
\* under response_code.  When result panics nothing reaches the renderer.
Methods == {"JSON", "JSONP", "AsciiJSON", "PureJSON", "XML", "YAML"}
RespondStatusAsCode(m, method, c, code, data, err) ==
    LET obj == result(m, c, code, data, err)
        rc == IF method = "JSON" THEN [exists |-> TRUE, val |-> code]
                                 ELSE [exists |-> FALSE, val |-> 0]
    IN  IF obj.panic
        THEN [panic |-> TRUE, response_code |-> rc]
        ELSE [panic |-> FALSE, response_code |-> rc, render |-> method,
              status |-> StatusOK, obj |-> [obj EXCEPT !.Code = StatusOK]]
Respond(m, method, c, code, data, err) ==
    LET obj == result(m, c, code, data, err)
        rc == IF method = "JSON" THEN [exists |-> TRUE, val |-> code]
                                 ELSE [exists |-> FALSE, val |-> 0]
    IN  IF obj.panic
        THEN [panic |-> TRUE, response_code |-> rc]
        ELSE [panic |-> FALSE, response_code |-> rc, render |-> method,
              status |-> StatusOK, obj |-> obj]

\* ------------------------------------------------------------------ inputs
\* Catalogs a Manager can be built with (New refuses an empty one).
CatFull ==
    (EnUS :> ((<<"0">> :> <<"o", "k">>)
              @@ (<<"-", "1">> :> <<"b", "u", "s", "y">>)
              @@ (<<"1", "0", "0", "0">> :> <<"H", "i", ",", "%", "s", ":", "%", "s">>)))
    @@ (ZhCN :> ((<<"0">> :> <<"h", "a", "o">>)
                 @@ (<<"1", "0", "0", "0">> :> <<"N", "i", ",", "%", "s", ":", "%", "s">>)))

\* an empty template, a lone placeholder, and a language with no messages
CatEdge ==
    (EnUS :> ((<<"0">> :> <<>>) @@ (<<"1", "0", "0", "0">> :> <<"%", "s">>)))
    @@ (FrFR :> NilMap)

\* no en-US: the constructed default language is not in the catalog
CatOne == (ZhCN :> (<<"0">> :> <<"h", "a", "o">>))

Catalogs == {CatFull, CatEdge, CatOne}

RunEnvs == {"prod", "dev", ""}

\* the languages named in calls, in headers and by SetLang
Langs == {EnUS, ZhCN, FrFR, XX, EmptyStr}
SetLangArgs == {EnUS, ZhCN, XX, EmptyStr}

\* message codes: as strings for Trans, as ints for the response methods
CodeStrs == {<<"0">>, <<"1", "0", "0", "0">>, <<"-", "1">>, <<"4", "0", "4">>, EmptyStr}
CodeInts == {-1, 0, 1000}

ParamVals == {<<"x">>, <<"y">>}
ParamLists == SeqsUpTo(ParamVals, MaxParams)

\* gin.Context: the request headers read and the trace_id key
UAToken == LangKey \o <<"=">> \o EnUS
TraceIDs ==
    {[exists |-> FALSE, isString |-> FALSE, str |-> ""],
     [exists |-> TRUE, isString |-> TRUE, str |-> "1213gsgdfd"],
     [exists |-> TRUE, isString |-> FALSE, str |-> ""]}
Contexts ==
    [lang : {EmptyStr, ZhCN}, ua : {EmptyStr, UAToken}, debug : {"", "1"},
     trace_id : TraceIDs]

PlainVal == [kind |-> "plain", val |-> "test"]
Payloads ==
    {[kind |-> "plain", val |-> "busy"]}
    \cup [kind : {"Data", "DataPtr"}, Params : ParamLists, Data : {PlainVal}]

Errs == {[isNil |-> TRUE, msg |-> ""], [isNil |-> FALSE, msg |-> "busy... "]}

\* ------------------------------------------------------------------- state
\* After New: a non-empty catalog, the default language of the options
\* (the constant, or what WithDefaultLang was given, "" included), the
\* debug option and the run environment read from the process environment.
Init ==
    /\ LangList \in Catalogs
    /\ defaultLang \in {DefaultLangConst, ZhCN, EmptyStr}
    /\ debugMode \in BOOLEAN
    /\ RunEnv \in RunEnvs
    /\ out = [op |-> "idle"]

\* The caller makes one call at a time: it is idle, calls, looks at what
\* came back, and is idle again.
Idle == out.op = "idle"

ReturnAct ==
    /\ ~Idle
    /\ out' = [op |-> "idle"]
    /\ UNCHANGED <<LangList, defaultLang, debugMode, RunEnv>>

SetLangAct ==
    /\ Idle
    /\ \E l \in SetLangArgs :
        /\ defaultLang' = SetLang(Manager, l)
        /\ out' = [op |-> "SetLang", lang |-> l]
        /\ UNCHANGED <<LangList, debugMode, RunEnv>>

TransActMemo ==
    /\ Idle
    /\ \E l \in Langs, code \in CodeStrs, params \in ParamLists :
        /\ out' = [op |-> "Trans", lang |-> l, code |-> code, params |-> params,
                   ret |-> Trans(Manager, l, code, params)]
        /\ LangList' = IF l \in DOMAIN LangList \/ defaultLang \notin DOMAIN LangList
                       THEN LangList
                       ELSE LangList @@ (l :> LangList[defaultLang])
        /\ UNCHANGED <<defaultLang, debugMode, RunEnv>>

TransAct ==
    /\ Idle
    /\ \E l \in Langs, code \in CodeStrs, params \in ParamLists :
        /\ out' = [op |-> "Trans", lang |-> l, code |-> code, params |-> params,
                   ret |-> Trans(Manager, l, code, params)]
        /\ UNCHANGED <<LangList, defaultLang, debugMode, RunEnv>>

LangAct ==
    /\ Idle
    /\ \E c \in Contexts :
        /\ out' = [op |-> "lang", c |-> c, ret |-> lang(Manager, c)]
        /\ UNCHANGED <<LangList, defaultLang, debugMode, RunEnv>>

IsDebugModeAct ==
    /\ Idle
    /\ \E c \in Contexts :
        /\ out' = [op |-> "isDebugMode", c |-> c, ret |-> isDebugMode(Manager, c)]
        /\ UNCHANGED <<LangList, defaultLang, debugMode, RunEnv>>

ResultAct ==
    /\ Idle
    /\ \E c \in Contexts, code \in CodeInts, data \in Payloads, err \in Errs :
        /\ out' = [op |-> "result", c |-> c, code |-> code, data |-> data,
                   err |-> err, res |-> result(Manager, c, code, data, err)]
        /\ UNCHANGED <<LangList, defaultLang, debugMode, RunEnv>>

CountAct ==
    /\ Idle
    /\ out' = [op |-> "Count", ret |-> Count(Manager)]
    /\ UNCHANGED <<LangList, defaultLang, debugMode, RunEnv>>

LangListAct ==
    /\ Idle
    /\ \E list \in LangOrders(Manager) :
        /\ out' = [op |-> "Lang", ret |-> list]
        /\ UNCHANGED <<LangList, defaultLang, debugMode, RunEnv>>

LangExistAct ==
    /\ Idle
    /\ \E l \in Langs :
        /\ out' = [op |-> "LangExist", lang |-> l, ret |-> LangExist(Manager, l)]
        /\ UNCHANGED <<LangList, defaultLang, debugMode, RunEnv>>

\* Handlers answering through a response method: requests without a
\* language header, any trace id and debug header.
RespondContexts == {c \in Contexts : c.lang = EmptyStr /\ c.ua = EmptyStr}
RespondPayloads ==
    {PlainVal, [kind |-> "Data", Params |-> <<<<"x">>, <<"y">>>>, Data |-> PlainVal]}

RespondAct ==
    /\ Idle
    /\ \E method \in Methods, c \in RespondContexts, code \in CodeInts,
          data \in RespondPayloads, err \in Errs :
        /\ out' = [op |-> "Respond", method |-> method, c |-> c, code |-> code,
                   data |-> data, err |-> err,
                   w |-> Respond(Manager, method, c, code, data, err)]
        /\ UNCHANGED <<LangList, defaultLang, debugMode, RunEnv>>

Next ==
    \/ CountAct
    \/ LangListAct
    \/ LangExistAct
    \/ RespondAct
    \/ SetLangAct
    \/ TransAct
    \/ LangAct
    \/ IsDebugModeAct
    \/ ResultAct
    \/ ReturnAct

Spec == Init /\ [][Next]_vars

\* ------------------------------------------------ repeated Trans calls
\* The caller remembers one finished Trans call (its arguments and what it
\* returned) in out.prev, goes on calling Trans and result, and forgets the
\* remembered call when SetLang is called.  out.mid tells that another
\* call has finished since the remembered one.
IdemLangs == {EnUS, ZhCN, XX}
IdemCodes == {<<"0">>, <<"1", "0", "0", "0">>, <<"4", "0", "4">>}
IdemParams == {<<>>, <<<<"x">>>>, <<<<"x">>, <<"y">>>>}
IdemContexts == {c \in Contexts : c.ua = EmptyStr /\ c.debug = "" /\ ~c.trace_id.exists}

InitIdem ==
    /\ LangList \in Catalogs
    /\ defaultLang \in {DefaultLangConst, ZhCN, EmptyStr}
    /\ debugMode = FALSE
    /\ RunEnv = "prod"
    /\ out = [op |-> "idle", prev |-> {}, mid |-> FALSE]

IdemTransActSticky ==
    /\ Idle
    /\ \E l \in IdemLangs, code \in IdemCodes, params \in IdemParams :
        /\ out' = [op |-> "Trans", lang |-> l, code |-> code, params |-> params,
                   ret |-> Trans(Manager, l, code, params),
                   prev |-> out.prev, mid |-> out.mid]
        /\ defaultLang' = IF l \in DOMAIN LangList THEN l ELSE defaultLang
        /\ UNCHANGED <<LangList, debugMode, RunEnv>>

IdemTransAct ==
    /\ Idle
    /\ \E l \in IdemLangs, code \in IdemCodes, params \in IdemParams :
        /\ out' = [op |-> "Trans", lang |-> l, code |-> code, params |-> params,
                   ret |-> Trans(Manager, l, code, params),
                   prev |-> out.prev, mid |-> out.mid]
        /\ UNCHANGED <<LangList, defaultLang, debugMode, RunEnv>>

IdemResultAct ==
    /\ Idle
    /\ \E c \in IdemContexts, code \in CodeInts :
        /\ out' = [op |-> "result", c |-> c, code |-> code,
                   res |-> result(Manager, c, code, PlainVal, [isNil |-> TRUE, msg |-> ""]),
                   prev |-> out.prev, mid |-> out.mid]
        /\ UNCHANGED <<LangList, defaultLang, debugMode, RunEnv>>

IdemSetLangAct ==
    /\ Idle
    /\ \E l \in SetLangArgs :
        /\ defaultLang' = SetLang(Manager, l)
        /\ out' = [op |-> "SetLang", lang |-> l, prev |-> {}, mid |-> FALSE]
        /\ UNCHANGED <<LangList, debugMode, RunEnv>>

\* the finished call is forgotten, the remembered one kept
IdemReturnAct ==
    /\ ~Idle
    /\ out' = [op |-> "idle", prev |-> out.prev,
               mid |-> (out.mid \/ (out.prev # {} /\ out.op # "SetLang"))]
    /\ UNCHANGED <<LangList, defaultLang, debugMode, RunEnv>>

\* the finished Trans call becomes the remembered one
IdemRememberAct ==
    /\ out.op = "Trans"
    /\ out' = [op |-> "idle",
               prev |-> {[lang |-> out.lang, code |-> out.code,
                          params |-> out.params, ret |-> out.ret]},
               mid |-> FALSE]
    /\ UNCHANGED <<LangList, defaultLang, debugMode, RunEnv>>

NextIdem ==
    \/ IdemTransAct
    \/ IdemResultAct
    \/ IdemSetLangAct
    \/ IdemReturnAct
    \/ IdemRememberAct

SpecIdem == InitIdem /\ [][NextIdem]_vars

\* ---------------------------------------------------------- construction
\* The language directory as filepath.Walk presents it to the callback of
\* loadLangFiles.  When the root cannot be lstat-ed the callback is called
\* once with a nil FileInfo; otherwise once per entry below the root, in
\* lexical order, subdirectories included (the walk is recursive):
\*   "file"     a regular file, read and parsed; content is
\*              "object" (a flat string-to-string JSON object, in map),
\*              "null" (the JSON value null) or "invalid" (anything else)
\*   "noread"   a regular file os.ReadFile fails on
\*   "dir"      a directory (also one whose listing failed)
\*   "nolstat"  an entry Lstat fails on: the callback gets a nil FileInfo
MaxFiles == 2

loadLangFilesPut(langList, stem, langConfig) ==
    [k \in DOMAIN langList \cup {stem} |->
        IF k = stem THEN langConfig ELSE langList[k]]

RECURSIVE loadLangFilesWalk(_, _, _)
loadLangFilesWalk(entries, i, langList) ==
    IF i > Len(entries)
    THEN [panic |-> FALSE, langList |-> langList, err |-> FALSE]
    ELSE LET e == entries[i] IN
         IF e.kind = "nolstat" THEN [panic |-> TRUE]
         ELSE IF e.kind = "dir" THEN loadLangFilesWalk(entries, i + 1, langList)
         ELSE IF e.kind = "noread"
         THEN [panic |-> FALSE, langList |-> langList, err |-> TRUE]
         ELSE IF e.content = "invalid"
         THEN [panic |-> FALSE, langList |-> langList, err |-> TRUE]
         ELSE loadLangFilesWalk(entries, i + 1,
                  loadLangFilesPut(langList, e.stem,
                      IF e.content = "null" THEN NilMap ELSE e.map))

loadLangFiles(dir) ==
    IF ~dir.exists THEN [panic |-> TRUE]
    ELSE loadLangFilesWalk(dir.entries, 1, <<>>)

\* New(opts...): the Manager and the error returned, or a panic.
NoManager ==
    [LangList |-> <<>>, defaultLang |-> EmptyStr, debugMode |-> FALSE, RunEnv |-> ""]

New(dir, optDefaultLang, optDebugMode, runEnv) ==
    LET r == loadLangFiles(dir) IN
    IF r.panic THEN [panic |-> TRUE]
    ELSE IF r.err THEN [panic |-> FALSE, isNil |-> TRUE, m |-> NoManager, err |-> TRUE]
    ELSE IF Cardinality(DOMAIN r.langList) = 0
    THEN [panic |-> FALSE, isNil |-> TRUE, m |-> NoManager, err |-> TRUE]
    ELSE [panic |-> FALSE, isNil |-> FALSE,
          m |-> [LangList |-> r.langList, defaultLang |-> optDefaultLang,
                 debugMode |-> optDebugMode, RunEnv |-> runEnv],
          err |-> FALSE]

\* Directory entries and directories tried.
NoMap == <<>>
DirEntries ==
    {[kind |-> "file", stem |-> EnUS, content |-> "object", map |-> CatFull[EnUS]],
     [kind |-> "file", stem |-> ZhCN, content |-> "object", map |-> CatFull[ZhCN]],
     [kind |-> "file", stem |-> EnUS, content |-> "object", map |-> CatEdge[EnUS]],
     [kind |-> "file", stem |-> FrFR, content |-> "null", map |-> NoMap],
     [kind |-> "file", stem |-> XX, content |-> "invalid", map |-> NoMap],
     [kind |-> "noread", stem |-> ZhCN, content |-> "", map |-> NoMap],
     [kind |-> "dir", stem |-> EmptyStr, content |-> "", map |-> NoMap],
     [kind |-> "nolstat", stem |-> EmptyStr, content |-> "", map |-> NoMap]}
Dirs ==
    {[exists |-> FALSE, entries |-> <<>>]}
    \cup [exists : {TRUE}, entries : SeqsUpTo(DirEntries, MaxFiles)]

\* The program before it has a Manager; New gives it one or fails, and
\* Count is asked of the Manager just obtained.
InitNew ==
    /\ LangList = NoManager.LangList
    /\ defaultLang = NoManager.defaultLang
    /\ debugMode = NoManager.debugMode
    /\ RunEnv = NoManager.RunEnv
    /\ out = [op |-> "idle"]

\* The default language of the options New was given: the constant
\* unless WithDefaultLang overrode it.
WithDefaultLangOpts ==
    {[set |-> FALSE, lang |-> EmptyStr], [set |-> TRUE, lang |-> ZhCN],
     [set |-> TRUE, lang |-> EnUS]}
optDefaultLang(o) == IF o.set THEN o.lang ELSE DefaultLangConst

NewAct ==
    /\ Idle
    /\ \E dir \in Dirs, o \in WithDefaultLangOpts, dm \in BOOLEAN,
          env \in {"prod", ""} :
        LET r == New(dir, optDefaultLang(o), dm, env)
            m == IF r.panic \/ r.isNil THEN Manager ELSE r.m
        IN  /\ out' = [op |-> "New", dir |-> dir, withDefaultLang |-> o, ret |-> r]
            /\ LangList' = m.LangList
            /\ defaultLang' = m.defaultLang
            /\ debugMode' = m.debugMode
            /\ RunEnv' = m.RunEnv

NewCountAct ==
    /\ out.op = "New"
    /\ ~out.ret.panic
    /\ ~out.ret.isNil
    /\ out' = [op |-> "Count", ret |-> Count(Manager)]
    /\ UNCHANGED <<LangList, defaultLang, debugMode, RunEnv>>

NextNew == NewAct \/ NewCountAct \/ ReturnAct

SpecNew == InitNew /\ [][NextNew]_vars

\* ------------------------------------------- SetLang racing with result
\* One goroutine builds an envelope while another calls SetLang.  The
\* field Option.defaultLang is a Go string, two words (data pointer and
\* length) that SetLang stores and lang and Trans load without any
\* synchronisation.  While a store is in flight a load returns the old
\* value, the new value, or one value's pointer with the other's length:
\* a prefix of the longer string, or the shorter string followed by
\* whatever bytes lie behind it in memory (JunkBytes stands for those).
Zh == <<"z", "h">>
JunkBytes == {"?"}

TornString(ptr, len) ==
    IF len <= Len(ptr)
    THEN {SubSeq(ptr, 1, len)}
    ELSE {ptr \o j : j \in [1..(len - Len(ptr)) -> JunkBytes]}

\* what a load of Option.defaultLang can return; w holds the value being
\* stored, if a store is in flight
RacyLoad(w) ==
    {defaultLang}
    \cup UNION {{new} \cup TornString(defaultLang, Len(new))
                      \cup TornString(new, Len(defaultLang)) : new \in w}

CatConc ==
    (EnUS :> (<<"0">> :> <<"o", "k">>)) @@ (Zh :> (<<"0">> :> <<"h", "a", "o">>))
ConcContexts ==
    {c \in Contexts : c.lang = EmptyStr /\ c.debug = "" /\ ~c.trace_id.exists}
    \cup {[lang |-> FrFR, ua |-> EmptyStr, debug |-> "",
           trace_id |-> [exists |-> FALSE, isString |-> FALSE, str |-> ""]]}
ConcCodes == {0, -1}
ConcSetLangArgs == {EnUS, Zh}

InitConc ==
    /\ LangList = CatConc
    /\ defaultLang \in {DefaultLangConst, Zh}
    /\ debugMode = FALSE
    /\ RunEnv = "prod"
    /\ out = [op |-> "idle"]

\* result is entered; held collects every value the field holds during
\* the call
ConcStartAct ==
    /\ Idle
    /\ \E c \in ConcContexts, code \in ConcCodes :
        /\ out' = [op |-> "resultConc", pc |-> "lang", c |-> c, code |-> code,
                   l |-> EmptyStr, msg |-> EmptyStr, w |-> {},
                   held |-> {defaultLang}]
        /\ UNCHANGED <<LangList, defaultLang, debugMode, RunEnv>>

\* m.lang(c), with its load of the default language
ConcLangAct ==
    /\ out.op = "resultConc"
    /\ out.pc = "lang"
    /\ \E d \in RacyLoad(out.w) :
        /\ out' = [out EXCEPT !.pc = "Trans",
                              !.l = lang([Manager EXCEPT !.defaultLang = d], out.c)]
        /\ UNCHANGED <<LangList, defaultLang, debugMode, RunEnv>>

\* m.Trans(lang, code), with its load of the default language
ConcTransAct ==
    /\ out.op = "resultConc"
    /\ out.pc = "Trans"
    /\ \E d \in RacyLoad(out.w) :
        /\ out' = [out EXCEPT !.pc = "done",
                              !.msg = Trans([Manager EXCEPT !.defaultLang = d],
                                            out.l, Itoa(out.code), <<>>)]
        /\ UNCHANGED <<LangList, defaultLang, debugMode, RunEnv>>

\* the other goroutine: SetLang(l) starts storing, and finishes
ConcSetLangBeginAct ==
    /\ out.op = "resultConc"
    /\ out.pc # "done"
    /\ out.w = {}
    /\ \E l \in ConcSetLangArgs :
        /\ out' = [out EXCEPT !.w = {l}, !.held = @ \cup {l}]
        /\ UNCHANGED <<LangList, defaultLang, debugMode, RunEnv>>

ConcSetLangEndAct ==
    /\ out.op = "resultConc"
    /\ out.w # {}
    /\ \E l \in out.w :
        /\ defaultLang' = SetLang(Manager, l)
        /\ out' = [out EXCEPT !.w = {}]
        /\ UNCHANGED <<LangList, debugMode, RunEnv>>

ConcReturnAct ==
    /\ out.op = "resultConc"
    /\ out.pc = "done"
    /\ out.w = {}
    /\ out' = [op |-> "idle"]
    /\ UNCHANGED <<LangList, defaultLang, debugMode, RunEnv>>

NextConc ==
    \/ ConcStartAct
    \/ ConcLangAct
    \/ ConcTransAct
    \/ ConcSetLangBeginAct
    \/ ConcSetLangEndAct
    \/ ConcReturnAct

SpecConc == InitConc /\ [][NextConc]_vars

\* ------------------------------------------ Trans over enumerated templates
\* Every template over TChars up to MaxTmplLen, stored under code "0" of
\* en-US: literal text, percent signs, the verbs s and T and a non-verb
\* letter.
TChars == {"a", "%", "s", "T"}
Templates == SeqsUpTo(TChars, MaxTmplLen)

InitFmt ==
    /\ LangList \in {(EnUS :> (<<"0">> :> t)) : t \in Templates}
    /\ defaultLang = DefaultLangConst
    /\ debugMode = FALSE
    /\ RunEnv = ""
    /\ out = [op |-> "idle"]

NextFmt == TransAct \/ ReturnAct

SpecFmt == InitFmt /\ [][NextFmt]_vars

\* --------------------------------------- lang over generated User-Agents
RECURSIVE Flatten(_)
Flatten(ss) == IF ss = <<>> THEN <<>> ELSE Head(ss) \o Flatten(Tail(ss))

\* The pieces a generated User-Agent is put together from.
UAPieces == {LangKey \o <<"=">>, <<"=">>, <<";">>, ZhCN, <<"x">>}
UAs == {Flatten(ps) : ps \in SeqsUpTo(UAPieces, MaxUAPieces)}

InitLang ==
    /\ LangList = CatFull
    /\ defaultLang \in {DefaultLangConst, ZhCN}
    /\ debugMode = FALSE
    /\ RunEnv = ""
    /\ out = [op |-> "idle"]

LangUAAct ==
    /\ Idle
    /\ \E h \in {EmptyStr, FrFR}, ua \in UAs :
        LET c == [lang |-> h, ua |-> ua, debug |-> "",
                  trace_id |-> [exists |-> FALSE, isString |-> FALSE, str |-> ""]]
        IN /\ out' = [op |-> "lang", c |-> c, ret |-> lang(Manager, c)]
           /\ UNCHANGED <<LangList, defaultLang, debugMode, RunEnv>>

NextLang == LangUAAct \/ SetLangAct \/ ReturnAct

SpecLang == InitLang /\ [][NextLang]_vars

\* ================================================================== claims
InCatalog(l) == l \in DOMAIN LangList

\* C1: for a language absent from the catalog, Trans returns the same
\* string as Trans called with the current default language, for every
\* code and parameter list.
C1_AbsentLangLikeDefault ==
    (out.op = "Trans" /\ ~InCatalog(out.lang))
        => out.ret = Trans(Manager, defaultLang, out.code, out.params)

\* C1 witness: an absent language, parameters passed, and the default
\* language's template came back formatted.
C1_Witness ==
    /\ out.op = "Trans"
    /\ ~InCatalog(out.lang)
    /\ InCatalog(defaultLang)
    /\ out.code \in DOMAIN LangList[defaultLang]
    /\ Len(out.params) = 2
    /\ out.ret # out.code
    /\ out.ret # LangList[defaultLang][out.code]

\* The mapping the claims call "resolved": the requested language's when
\* it is in the catalog, else the default language's, else none.
ResolvedMapping ==
    IF InCatalog(out.lang) THEN LangList[out.lang]
    ELSE IF InCatalog(defaultLang) THEN LangList[defaultLang]
    ELSE NilMap

\* C2: a code absent from the resolved mapping is returned unchanged,
\* whatever the parameters and whatever other languages hold.
C2_AbsentCodeEchoed ==
    (out.op = "Trans" /\ out.code \notin DOMAIN ResolvedMapping)
        => out.ret = out.code

\* C2 witness: the code is missing in the requested catalog language but
\* present in the default language, and parameters were passed.
C2_Witness ==
    /\ out.op = "Trans"
    /\ InCatalog(out.lang)
    /\ out.code \notin DOMAIN LangList[out.lang]
    /\ InCatalog(defaultLang)
    /\ out.code \in DOMAIN LangList[defaultLang]
    /\ Len(out.params) > 0
    /\ out.ret = out.code

\* The template Trans found, for a call whose language and code are both
\* in the catalog.
FoundTemplate == LangList[out.lang][out.code]
TemplateFound ==
    /\ out.op = "Trans"
    /\ InCatalog(out.lang)
    /\ out.code \in DOMAIN LangList[out.lang]

\* The %s placeholders of a template, read left to right as printf does:
\* %% is an escaped percent sign and %<other> is another directive.
RECURSIVE CountPlaceholders(_, _)
CountPlaceholders(t, i) ==
    IF i > Len(t) THEN 0
    ELSE IF t[i] = "%" /\ i < Len(t)
    THEN (IF t[i + 1] = "s" THEN 1 ELSE 0) + CountPlaceholders(t, i + 2)
    ELSE CountPlaceholders(t, i + 1)

\* The template with its k-th, k+1-th ... placeholder replaced by ps[k],
\* ps[k+1] ... and every other character kept.
RECURSIVE ReplacePlaceholders(_, _, _, _)
ReplacePlaceholders(t, i, ps, k) ==
    IF i > Len(t) THEN <<>>
    ELSE IF t[i] = "%" /\ i < Len(t)
    THEN IF t[i + 1] = "s"
         THEN ps[k] \o ReplacePlaceholders(t, i + 2, ps, k + 1)
         ELSE <<t[i], t[i + 1]>> \o ReplacePlaceholders(t, i + 2, ps, k)
    ELSE <<t[i]>> \o ReplacePlaceholders(t, i + 1, ps, k)

\* every % of the template starts a %s placeholder
OnlyPlaceholders(t) ==
    \A i \in 1..Len(t) : t[i] = "%" => (i < Len(t) /\ t[i + 1] = "s")

\* C3 as stated: with exactly n >= 1 placeholders and n parameters, Trans
\* returns the template with the i-th placeholder replaced by the i-th
\* parameter and every other character unchanged.
C3_AsStated ==
    (/\ TemplateFound
     /\ Len(out.params) >= 1
     /\ CountPlaceholders(FoundTemplate, 1) = Len(out.params))
        => out.ret = ReplacePlaceholders(FoundTemplate, 1, out.params, 1)

\* C3 amended: the same, for templates whose only percent signs are those
\* of the n placeholders (no %% and no other directive).
C3_OnlyPlaceholders ==
    (/\ TemplateFound
     /\ Len(out.params) >= 1
     /\ OnlyPlaceholders(FoundTemplate)
     /\ CountPlaceholders(FoundTemplate, 1) = Len(out.params))
        => out.ret = ReplacePlaceholders(FoundTemplate, 1, out.params, 1)

\* C3 witness: two placeholders around literal text, two different
\* parameters, substituted in order.
C3_Witness ==
    /\ TemplateFound
    /\ FoundTemplate = <<"%", "s", "a", "%", "s">>
    /\ out.params = <<<<"x">>, <<"y">>>>
    /\ out.ret = <<"x", "a", "y">>

\* A lang token of the User-Agent: a `;`-separated part that reads
\* lang=<value>, the value holding no further `=`.
LangEq == LangKey \o <<"=">>
IsLangToken(seg) ==
    /\ Len(seg) >= Len(LangEq)
    /\ SubSeq(seg, 1, Len(LangEq)) = LangEq
    /\ \A j \in (Len(LangEq) + 1)..Len(seg) : seg[j] # "="
TokenValue(seg) == SubSeq(seg, Len(LangEq) + 1, Len(seg))

\* the language the precedence rule selects for request context c
SelectedByPrecedence(c) ==
    LET segs == Split(c.ua, ";")
        toks == {i \in 1..Len(segs) : IsLangToken(segs[i])}
    IN IF c.lang # EmptyStr THEN c.lang
       ELSE IF toks # {}
       THEN TokenValue(segs[CHOOSE i \in toks : \A j \in toks : i <= j])
       ELSE defaultLang

\* C4: language selection is header first (verbatim, in the catalog or
\* not), then the lang token of the User-Agent, then the default language.
C4_LangPrecedence ==
    out.op = "lang" => out.ret = SelectedByPrecedence(out.c)

\* C4 witness: a lang header naming a language outside the catalog wins
\* over a User-Agent that carries a lang token for another language.
C4_Witness ==
    /\ out.op = "lang"
    /\ out.c.lang = FrFR
    /\ ~InCatalog(FrFR)
    /\ out.c.ua = <<"x">> \o <<";">> \o LangEq \o ZhCN
    /\ out.ret = FrFR

\* C5: isDebugMode is true exactly when the run environment is not "prod"
\* and the debug option is set or the request has a non-empty debug header.
C5_DebugGate ==
    out.op = "isDebugMode"
        => (out.ret <=> (RunEnv # "prod" /\ (debugMode \/ out.c.debug # "")))

\* C5 witness: in "prod" with the debug option and the debug header both
\* set, isDebugMode returned false.
C5_Witness ==
    /\ out.op = "isDebugMode"
    /\ RunEnv = "prod"
    /\ debugMode
    /\ out.c.debug # ""
    /\ out.ret = FALSE

Returned == out.op = "result" /\ ~out.res.panic

\* C6: trace.desc of an envelope is the text of err when isDebugMode holds
\* for the request and err is not nil, and is empty otherwise.
C6_TraceDesc ==
    Returned
        => out.res.Trace.Desc =
               (IF isDebugMode(Manager, out.c) /\ ~out.err.isNil
                THEN out.err.msg ELSE "")

\* C6 witness: an error was passed in "prod" with the debug header set, and
\* the envelope's trace.desc is empty.
C6_Witness ==
    /\ Returned
    /\ RunEnv = "prod"
    /\ out.c.debug # ""
    /\ ~out.err.isNil
    /\ out.err.msg # ""
    /\ out.res.Trace.Desc = ""

\* C7: result never fails: it returns an envelope for every code, payload,
\* err, request and every value stored under trace_id, of any type.
C7_ResultNeverFails ==
    out.op = "result" => ~out.res.panic

\* C8: Trans returns a non-empty string for every language, code and
\* parameter list, and every envelope's message is non-empty.
C8_MessageNonEmpty ==
    /\ out.op = "Trans" => out.ret # EmptyStr
    /\ Returned => out.res.Msg # EmptyStr

\* C9: when neither the default language nor the requested language is in
\* the catalog, Trans returns the code unchanged.
C9_NoDefaultEchoesCode ==
    (out.op = "Trans" /\ ~InCatalog(defaultLang) /\ ~InCatalog(out.lang))
        => out.ret = out.code

\* C9 witness: SetLang moved the default to a language outside the catalog;
\* the constructed default is in the catalog and has the code; parameters
\* were passed, and the code came back.
C9_Witness ==
    /\ out.op = "Trans"
    /\ defaultLang = XX
    /\ ~InCatalog(defaultLang)
    /\ ~InCatalog(out.lang)
    /\ InCatalog(DefaultLangConst)
    /\ out.code \in DOMAIN LangList[DefaultLangConst]
    /\ Len(out.params) > 0
    /\ out.ret = out.code

\* C10: for a Data wrapper the envelope's data is the wrapper's Data field
\* and its Params are the substitution arguments of the message; for any
\* other payload the data is the payload and there are no arguments.
C10_DataWrapper ==
    Returned
        => LET l == lang(Manager, out.c)
               code == Itoa(out.code)
           IN IF out.data.kind = "Data"
              THEN /\ out.res.Data = out.data.Data
                   /\ out.res.Msg = Trans(Manager, l, code, out.data.Params)
              ELSE /\ out.res.Data = out.data
                   /\ out.res.Msg = Trans(Manager, l, code, <<>>)

\* C10 witness: a Data wrapper with two parameters; the envelope carries
\* the inner value only and a message the parameters were formatted into.
C10_Witness ==
    /\ Returned
    /\ out.data.kind = "Data"
    /\ Len(out.data.Params) = 2
    /\ out.res.Data = PlainVal
    /\ out.res.Msg # Trans(Manager, lang(Manager, out.c), Itoa(out.code), <<>>)
    /\ out.res.Msg # Itoa(out.code)

\* C11: after any sequence of SetLang calls the default language is the
\* argument of the latest non-empty SetLang, or the constructed default:
\* every step either is a SetLang that stores its non-empty argument (an
\* empty one keeps the value) or leaves the default language alone, and a
\* language selection or Trans fallback made in a step uses the value the
\* field then has.
C11_Step ==
    /\ out'.op = "SetLang"
           => defaultLang' =
                  (IF out'.lang # EmptyStr THEN out'.lang ELSE defaultLang)
    /\ out'.op # "SetLang" => defaultLang' = defaultLang
    /\ (out'.op = "lang" /\ out'.c.lang = EmptyStr /\ out'.c.ua = EmptyStr)
           => out'.ret = defaultLang'
    /\ (out'.op = "Trans" /\ out'.lang \notin DOMAIN LangList')
           => out'.ret =
                  TransMsg(Manager', LangListGet(Manager', defaultLang'),
                           out'.code, out'.params)
C11_LastWriterWins == [][C11_Step]_vars

\* C11 witness: SetLang("") was called after the default had been set to
\* a language New was not given, and that language is still the default.
C11_Witness ==
    /\ out.op = "SetLang"
    /\ out.lang = EmptyStr
    /\ defaultLang = XX

\* C13: err has no effect on code, message, data or trace.id: the envelope
\* built with any other err agrees with this one in all four (and result
\* fails with the one exactly when it fails with the other).
C13_ErrOnlyDesc ==
    out.op = "result"
        => \A e \in Errs :
               LET r == result(Manager, out.c, out.code, out.data, e) IN
               /\ r.panic = out.res.panic
               /\ ~r.panic => /\ r.Code = out.res.Code
                              /\ r.Msg = out.res.Msg
                              /\ r.Data = out.res.Data
                              /\ r.Trace.ID = out.res.Trace.ID

NilErr == [isNil |-> TRUE, msg |-> ""]

\* C13 witness: an error was passed with debug permitted; the envelope
\* differs from the one built without an error, and only in trace.desc.
C13_Witness ==
    /\ Returned
    /\ ~out.err.isNil
    /\ out.data.kind = "Data"
    /\ out.c.trace_id.exists
    /\ out.res.Trace.Desc # ""
    /\ result(Manager, out.c, out.code, out.data, NilErr)
           = [out.res EXCEPT !.Trace.Desc = ""]

\* C14: trace.id of an envelope is the trace id attached to the request
\* context under trace_id, and empty when none was attached.
C14_TraceID ==
    Returned
        => out.res.Trace.ID =
               (IF out.c.trace_id.exists THEN out.c.trace_id.str ELSE "")

\* C14 witness: a trace id was attached and is in the envelope, with debug
\* output not permitted.
C14_Witness ==
    /\ Returned
    /\ out.c.trace_id.exists
    /\ ~isDebugMode(Manager, out.c)
    /\ out.res.Trace.ID = "1213gsgdfd"

\* C15 as stated: with isDebugMode false for the request, both trace.id
\* and trace.desc of the envelope are empty.
C15_AsStated ==
    (Returned /\ ~isDebugMode(Manager, out.c))
        => (out.res.Trace.ID = "" /\ out.res.Trace.Desc = "")

\* C15 amended: with isDebugMode false for the request, trace.desc is
\* empty, while trace.id still is whatever trace id was attached.
C15_DescOnlyGated ==
    (Returned /\ ~isDebugMode(Manager, out.c))
        => /\ out.res.Trace.Desc = ""
           /\ out.c.trace_id.exists => out.res.Trace.ID = out.c.trace_id.str

\* C15 witness: in "prod", an error and a trace id were given; the
\* envelope has the trace id and no description.
C15_Witness ==
    /\ Returned
    /\ RunEnv = "prod"
    /\ debugMode
    /\ ~out.err.isNil
    /\ out.c.trace_id.exists
    /\ out.res.Trace.ID # ""
    /\ out.res.Trace.Desc = ""

\* C17: no step of any operation changes the language list, the debug flag
\* or the run environment, and only a SetLang step changes the default
\* language.
C17_Step ==
    /\ LangList' = LangList
    /\ debugMode' = debugMode
    /\ RunEnv' = RunEnv
    /\ defaultLang' # defaultLang => out'.op = "SetLang"
C17_Frame == [][C17_Step]_vars

\* C17 witness: after a SetLang changed the default language, a response
\* method has run on the manager whose catalog, debug flag and run
\* environment are those it was built with.
C17_Witness ==
    /\ out.op = "Respond"
    /\ out.method = "YAML"
    /\ defaultLang = XX
    /\ LangList = CatEdge
    /\ debugMode
    /\ RunEnv = "dev"

\* C18: whatever a response method hands to the renderer has HTTP status
\* 200 and an envelope whose code is the business code passed in, for every
\* method, code (negative ones too) and err.
C18_Status200 ==
    (out.op = "Respond" /\ ~out.w.panic)
        => /\ out.w.status = 200
           /\ out.w.obj.Code = out.code
           /\ out.w.render = out.method

\* C18 witness: XML answered a failure (code -1, an error) with status 200
\* and code -1 in the envelope.
C18_Witness ==
    /\ out.op = "Respond"
    /\ out.method = "XML"
    /\ out.code = -1
    /\ ~out.err.isNil
    /\ ~out.w.panic
    /\ out.w.status = 200
    /\ out.w.obj.Code = -1

\* C19: called without parameters, Trans returns the stored template
\* character for character, whatever percent signs or directives the
\* template holds.
C19_NoParamsVerbatim ==
    (TemplateFound /\ Len(out.params) = 0) => out.ret = FoundTemplate

\* C19 witness: a template with a placeholder, a bad directive and a
\* trailing percent sign came back unchanged from a call without
\* parameters.
C19_Witness ==
    /\ TemplateFound
    /\ Len(out.params) = 0
    /\ FoundTemplate = <<"%", "s", "%", "a", "%">>
    /\ out.ret = <<"%", "s", "%", "a", "%">>

\* C20: a Trans call returns what the remembered Trans call with the same
\* language, code and parameters returned, when no SetLang was called in
\* between, whatever other Trans and result calls were.
C20_TransRepeatable ==
    out.op = "Trans"
        => \A p \in out.prev :
               (p.lang = out.lang /\ p.code = out.code /\ p.params = out.params)
                   => out.ret = p.ret

\* C20 witness: a formatted fallback translation was returned a second
\* time after other calls had been made in between.
C20_Witness ==
    /\ out.op = "Trans"
    /\ out.mid
    /\ out.lang = XX
    /\ out.params = <<<<"x">>, <<"y">>>>
    /\ defaultLang = ZhCN
    /\ out.ret = <<"N", "i", ",", "x", ":", "y">>
    /\ \E p \in out.prev :
           /\ p.lang = out.lang /\ p.code = out.code /\ p.params = out.params
           /\ p.ret = out.ret

\* The sources of a directory: its regular files; one is bad when it
\* cannot be read or does not parse.
DirSources(dir) ==
    {i \in 1..Len(dir.entries) : dir.entries[i].kind \in {"file", "noread"}}
DirBadSource(dir) ==
    \E i \in DirSources(dir) :
        \/ dir.entries[i].kind = "noread"
        \/ dir.entries[i].content = "invalid"

\* C16: New returns either a Manager with at least one language and a nil
\* error, or an error and no Manager; it returns the error when there is no
\* source and when a source cannot be read or parsed; and Count() of a
\* Manager obtained from New is at least 1.
C16_NewAllOrNothing ==
    /\ out.op = "New"
           => /\ ~out.ret.panic
              /\ \/ ~out.ret.isNil /\ ~out.ret.err /\ Count(out.ret.m) >= 1
                 \/ out.ret.isNil /\ out.ret.err
              /\ DirSources(out.dir) = {} => out.ret.err
              /\ DirBadSource(out.dir) => out.ret.err
    /\ out.op = "Count" => out.ret >= 1

\* C12: the message of an envelope built while SetLang calls run is the
\* message the same request gets with the default language fixed at one of
\* the values the field held during the call.
C12_SingleValueExplains ==
    (out.op = "resultConc" /\ out.pc = "done")
        => \E d \in out.held :
               LET m == [Manager EXCEPT !.defaultLang = d] IN
               out.msg = Trans(m, lang(m, out.c), Itoa(out.code), <<>>)

\* C21 as stated: Trans returns the code whenever the language is not in
\* the catalog or the code is not in that language's mapping.
C21_AsStated ==
    (out.op = "Trans"
        /\ (~InCatalog(out.lang) \/ out.code \notin DOMAIN LangList[out.lang]))
        => out.ret = out.code

\* C21 amended: Trans returns the code when the language is in the catalog
\* and its mapping lacks the code, and when the language is not in the
\* catalog and the default language is not either or lacks the code; a
\* language not in the catalog gets the default language's template when
\* the default language has the code.
C21_CodeWhenNoTemplate ==
    out.op = "Trans"
        => /\ (InCatalog(out.lang) /\ out.code \notin DOMAIN LangList[out.lang])
                  => out.ret = out.code
           /\ (~InCatalog(out.lang) /\ ~InCatalog(defaultLang))
                  => out.ret = out.code
           /\ (~InCatalog(out.lang) /\ InCatalog(defaultLang))
                  => IF out.code \notin DOMAIN LangList[defaultLang]
                     THEN out.ret = out.code
                     ELSE Len(out.params) = 0
                              => out.ret = LangList[defaultLang][out.code]

\* C21 witness: a language outside the catalog and a code that the default
\* language lacks though another language has it; the code came back.
C21_Witness ==
    /\ out.op = "Trans"
    /\ out.lang = XX
    /\ defaultLang = ZhCN
    /\ LangList = CatFull
    /\ out.code = <<"-", "1">>
    /\ out.ret = <<"-", "1">>

\* C22: a Manager that New built without WithDefaultLang has default
\* language zh-CN: a request with no language signal is given zh-CN, and
\* Trans for a language outside the catalog answers as for zh-CN.
C22_DefaultIsZhCN ==
    (out.op = "New" /\ ~out.ret.panic /\ ~out.ret.isNil /\ ~out.withDefaultLang.set)
        => /\ defaultLang = ZhCN
           /\ \A c \in Contexts :
                  (c.lang = EmptyStr /\ c.ua = EmptyStr) => lang(Manager, c) = ZhCN
           /\ \A code \in CodeStrs :
                  Trans(Manager, XX, code, <<>>) = Trans(Manager, ZhCN, code, <<>>)

\* C23 as stated: with more parameters than placeholders, Trans returns the
\* template with its placeholders filled by the leading parameters and
\* nothing added (a template without placeholders comes back unchanged).
C23_AsStated ==
    (TemplateFound /\ Len(out.params) > CountPlaceholders(FoundTemplate, 1))
        => out.ret = ReplacePlaceholders(FoundTemplate, 1, out.params, 1)

\* What fmt appends for the parameters ps[k], ps[k+1] ... left over:
\* %!(EXTRA string=p, string=q)
RECURSIVE ExtraOperands(_, _)
ExtraOperands(ps, k) ==
    <<"s", "t", "r", "i", "n", "g", "=">> \o ps[k]
    \o (IF k = Len(ps) THEN <<>> ELSE <<",", " ">> \o ExtraOperands(ps, k + 1))
ExtraMarker(ps, k) ==
    <<"%", "!", "(", "E", "X", "T", "R", "A", " ">> \o ExtraOperands(ps, k) \o <<")">>

\* C23 amended: for a template whose only percent signs are those of its
\* n placeholders and more than n parameters, Trans returns the template
\* with the placeholders filled by the first n parameters, followed by
\* the marker that lists the other parameters.
C23_ExcessReported ==
    (/\ TemplateFound
     /\ OnlyPlaceholders(FoundTemplate)
     /\ Len(out.params) > CountPlaceholders(FoundTemplate, 1))
        => out.ret = ReplacePlaceholders(FoundTemplate, 1, out.params, 1)
                     \o ExtraMarker(out.params, CountPlaceholders(FoundTemplate, 1) + 1)

\* C23 witness: one placeholder, two parameters; the first was filled in
\* and the second reported behind the text.
C23_Witness ==
    /\ TemplateFound
    /\ FoundTemplate = <<"a", "%", "s">>
    /\ out.params = <<<<"x">>, <<"y">>>>
    /\ out.ret = <<"a", "x", "%", "!", "(", "E", "X", "T", "R", "A", " ",
                   "s", "t", "r", "i", "n", "g", "=", "y", ")">>

\* The position of the first `=` of a segment (0 when it has none), the
\* text before it and the text after it.
FirstEq(seg) ==
    IF \E j \in 1..Len(seg) : seg[j] = "="
    THEN CHOOSE j \in 1..Len(seg) :
             seg[j] = "=" /\ \A k \in 1..(j - 1) : seg[k] # "="
    ELSE 0
KeyOf(seg) == SubSeq(seg, 1, FirstEq(seg) - 1)
ValueOf(seg) == SubSeq(seg, FirstEq(seg) + 1, Len(seg))
HasLangKey(seg) == FirstEq(seg) > 0 /\ KeyOf(seg) = LangKey

\* C24 as stated: with an empty lang header, the first `;`-segment of the
\* User-Agent whose text before its first `=` is lang selects all the text
\* after that first `=`; without such a segment the default is selected.
C24_AsStated ==
    (out.op = "lang" /\ out.c.lang = EmptyStr)
        => LET segs == Split(out.c.ua, ";")
               hits == {i \in 1..Len(segs) : HasLangKey(segs[i])}
           IN  out.ret = IF hits = {} THEN defaultLang
                         ELSE ValueOf(segs[CHOOSE i \in hits : \A j \in hits : i <= j])

\* C24 amended: only a segment with exactly one `=` counts: the first
\* segment with key lang and no `=` in its value selects that value; a
\* segment with key lang and a second `=` is passed over like any other.
C24_ExactlyOneEq ==
    (out.op = "lang" /\ out.c.lang = EmptyStr)
        => LET segs == Split(out.c.ua, ";")
               hits == {i \in 1..Len(segs) :
                           /\ HasLangKey(segs[i])
                           /\ \A j \in 1..Len(ValueOf(segs[i])) : ValueOf(segs[i])[j] # "="}
           IN  out.ret = IF hits = {} THEN defaultLang
                         ELSE ValueOf(segs[CHOOSE i \in hits : \A j \in hits : i <= j])

\* C24 witness: the first segment has key lang and a second `=`, the next
\* one is a plain lang token; the plain token's language was selected.
C24_Witness ==
    /\ out.op = "lang"
    /\ out.c.lang = EmptyStr
    /\ out.c.ua = LangKey \o <<"=", "=", ";">> \o LangKey \o <<"=">> \o ZhCN
    /\ defaultLang = DefaultLangConst
    /\ out.ret = ZhCN

====
